---- MODULE Spec2Model ----
(***************************************************************************)
(* Parallel-coordinates chart: the ParallelPlot component, its per-axis    *)
(* AxisBrush children and the scale utilities, as one state machine.       *)
(*                                                                         *)
(* Domain values and pixel rows are integers.  The inner heights that the  *)
(* container sizes below produce are multiples of every axis's (niced)     *)
(* domain span, so value -> pixel is exact for whole domain values, and    *)
(* the pointer rests on rows that map back to whole values: d3 computes in *)
(* floating point, and its rounding error is not part of this model.       *)
(*                                                                         *)
(* Vue runs watcher callbacks as queued jobs after the handler that        *)
(* changed their source; each such job is an action of its own             *)
(* (WatchExtent, WatchScale, MountBrush), enabled while the job is queued. *)
(* d3's brush.move dispatches the start, brush and end events              *)
(* synchronously, so the listeners run inside the action that moves.       *)
(* The queue is that of Vue's production build, which runs a job as often  *)
(* as it is queued; the development build aborts after 100 recursive runs. *)
(*                                                                         *)
(* Of the selection d3 keeps for a brush the components read only whether  *)
(* there is one and, at the end of a gesture, whether it is empty; the     *)
(* rows reach the components through the events, in which the model        *)
(* carries them.  brushSelection therefore holds "none", "empty" (a        *)
(* selection of height 0) or "span".                                       *)
(***************************************************************************)
EXTENDS Integers, Sequences, FiniteSets, TLC

NULL == "null"

\* ------------------------------------------------------------------ bounds

\* setBrushExtent is called by the host with min and max drawn from 0..MaxArg.
MaxArg == 1

\* The optimization utility is called with topN up to MaxTopN.
MaxTopN == 3

\* The scale utilities are called with domain values in 0..MaxValue.
MaxValue == 6

\* ------------------------------------------------------------------ inputs

\* Attribute keys: "a" and "b" are configured axes, "z" is a key no axis has.
Keys == {"a", "b", "z"}

\* props.axes: "a" keeps its domain under nice(), "b" is widened to [0,16].
Axes ==
  << [key |-> "a", min |-> 0, max |-> 2],
     [key |-> "b", min |-> 0, max |-> 15] >>

\* props.data: "o2" has no value for "a", "o3" has none for "b".
Data ==
  << [id |-> "o1", values |-> [a |-> 1, b |-> 8]],
     [id |-> "o2", values |-> [b |-> 15]],
     [id |-> "o3", values |-> [a |-> 2]] >>

Ids == {"o1", "o2", "o3"}

\* props.ranges: axis "a" is named by two range sets.  "green" is defined once
\* for "a" and once for "b", "red" for "a" only, "amber" in both sets of "a",
\* "blue" nowhere.
Ranges ==
  << [axisKey |-> "a",
      ranges |-> << [name |-> "green", min |-> 1, max |-> 2],
                    [name |-> "amber", min |-> 0, max |-> 1],
                    [name |-> "red", min |-> 0, max |-> 0] >>],
     [axisKey |-> "b",
      ranges |-> << [name |-> "green", min |-> 8, max |-> 15] >>],
     [axisKey |-> "a",
      ranges |-> << [name |-> "amber", min |-> 1, max |-> 1] >>] >>

RangeConfigs == {Ranges}

RangeNames == {"green", "amber", "red", "blue"}

\* Container rectangles (width, height) the ResizeObserver reports: hidden,
\* full width, half width.
ContainerSizes == { <<0, 0>>, <<264, 112>>, <<132, 112>> }

\* DEFAULT_CONFIG.margin
Margin == [top |-> 50, right |-> 50, bottom |-> 30, left |-> 50]

VARIABLES
  data,              \* props.data
  ranges,            \* props.ranges
  externalSelection, \* props.externalSelection
  dimensions,        \* ref dimensions
  yScales,           \* ref yScales: axis key -> linear scale
  xScale,            \* ref xScale: << >> (null) or the point scale
  brushExtents,      \* ref brushExtents: sequence of [axisKey, min, max]
  selectedIds,       \* ref selectedIds
  mounted,           \* axis keys whose AxisBrush is mounted (setupBrush has run)
  isBrushing,        \* AxisBrush.isBrushing, per axis
  brushSelection,    \* d3's selection of the axis's brush: "none", "empty" or "span"
  pointerDown,       \* the axis (at most one) whose brush the pointer is dragging
  watchedExtent,     \* per axis: was the extent watcher's old value "null" or "obj"
  extentFresh,       \* per axis: the extent prop is an object the watcher has not seen
  setupPending,      \* per axis: the scale/height watcher is queued
  brushHeight,       \* per axis: props.height at the last setupBrush (the brush area)
  filterChanges,     \* filterChange events emitted by the last step
  selectionChanges,  \* selectionChange events emitted by the last step
  selectionRequests, \* requestSelectionChange events emitted by the last step
  solutionIds,       \* ref solutionIds
  optInput,          \* arguments of the last findOptimalSolutions call
  optResult,         \* the OptimizationResult of that call
  scaleCall,         \* the last valueToPixel / pixelToValue round trip
  axes,              \* props.axes
  selectedDomain,    \* the host's selectedDomain, which gives axes, ranges and data
  hostFilteredIds,   \* the host's filteredIds, set by handleFilterChange
  hasActiveFilters,  \* the host's hasActiveFilters, set by handleFilterChange
  lastOp             \* the handler or job the last step ran

vars ==
  << data, ranges, externalSelection, dimensions, yScales, xScale, brushExtents,
     selectedIds, mounted, isBrushing, brushSelection, pointerDown, watchedExtent,
     extentFresh, setupPending, brushHeight, filterChanges, selectionChanges,
     selectionRequests, solutionIds, optInput, optResult, scaleCall, axes,
     selectedDomain, hostFilteredIds, hasActiveFilters, lastOp >>

\* The state the chart's own handlers never touch: the solution set, the
\* records of the utility functions' last calls, and the axes the host gives.
optVars == << solutionIds, optInput, optResult, scaleCall, axes, selectedDomain >>

\* The host's mirror of the chart's filter state.
hostVars == << hostFilteredIds, hasActiveFilters >>

AxisKeys == {Axes[i].key : i \in DOMAIN Axes}

\* The keys of props.axes.
ConfiguredKeys == {axes[i].key : i \in DOMAIN axes}

Max(x, y) == IF x >= y THEN x ELSE y
Min(x, y) == IF x <= y THEN x ELSE y

\* ------------------------------------------------------------------ scales

\* d3 tickIncrement(start, stop, 10) for whole start <= stop with a span below
\* 100: a positive step, -1 for a fractional step (span 1..9), 0 for span 0.
TickIncrement(start, stop) ==
  LET span == stop - start IN
  IF span = 0 THEN 0
  ELSE IF span < 10 THEN -1
  ELSE IF span * span >= 5000 THEN 10
  ELSE IF span * span >= 1000 THEN 5
  ELSE IF span * span >= 200 THEN 2
  ELSE 1

\* d3 scale.nice(): round the domain outwards to the tick step until the step
\* is stable; a fractional step leaves whole bounds as they are.
RECURSIVE NiceIter(_, _, _, _, _, _)
NiceIter(start, stop, prestep, maxIter, d0, d1) ==
  IF maxIter = 0 THEN <<d0, d1>>
  ELSE LET step == TickIncrement(start, stop) IN
       IF step = prestep THEN <<start, stop>>
       ELSE IF step > 0
         THEN NiceIter((start \div step) * step, ((stop + step - 1) \div step) * step,
                       step, maxIter - 1, d0, d1)
       ELSE IF step < 0 THEN NiceIter(start, stop, step, maxIter - 1, d0, d1)
       ELSE <<d0, d1>>

Nice(d0, d1) == NiceIter(d0, d1, -2, 10, d0, d1)

\* createYScale: domain [min, max] niced, range [height, 0].
createYScale(axis, height) ==
  LET d == Nice(axis.min, axis.max) IN [d0 |-> d[1], d1 |-> d[2], h |-> height]

createYScales(axs, height) ==
  [k \in {axs[i].key : i \in DOMAIN axs} |->
     createYScale(axs[CHOOSE i \in DOMAIN axs : axs[i].key = k], height)]

createXPositionScale(axs, width) ==
  [keys |-> [i \in DOMAIN axs |-> axs[i].key], width |-> width]

\* scale(v) of a d3 linear scale (unclamped); a domain of span 0 maps every
\* value to the middle of the range.
ScaleApply(s, v) ==
  IF s.d1 = s.d0 THEN s.h \div 2
  ELSE s.h - ((v - s.d0) * s.h) \div (s.d1 - s.d0)

\* scale.invert(y)
ScaleInvert(s, y) ==
  IF s.h = 0 THEN s.d0 + (s.d1 - s.d0) \div 2
  ELSE s.d0 + ((s.h - y) * (s.d1 - s.d0)) \div s.h

pixelToValue(y1, y2, axisKey, scales) ==
  IF axisKey \notin DOMAIN scales THEN [min |-> 0, max |-> 0]
  ELSE LET v1 == ScaleInvert(scales[axisKey], y1)
           v2 == ScaleInvert(scales[axisKey], y2)
       IN [min |-> Min(v1, v2), max |-> Max(v1, v2)]

valueToPixel(min, max, axisKey, scales) ==
  IF axisKey \notin DOMAIN scales THEN [y1 |-> 0, y2 |-> 0]
  ELSE [y1 |-> ScaleApply(scales[axisKey], max),
        y2 |-> ScaleApply(scales[axisKey], min)]

calculateDimensions(containerWidth, containerHeight, margin) ==
  [width |-> containerWidth,
   height |-> containerHeight,
   innerWidth |-> Max(0, containerWidth - margin.left - margin.right),
   innerHeight |-> Max(0, containerHeight - margin.top - margin.bottom)]

\* ------------------------------------------------------------------ filter

\* obj.values[axisKey] ?? 0
ValueOf(obj, axisKey) ==
  IF axisKey \in DOMAIN obj.values THEN obj.values[axisKey] ELSE 0

\* filteredIds with the upper bound of a brush taken as exclusive.
filteredIdsExclusive(d, brushes) ==
  IF Len(brushes) = 0 THEN {d[i].id : i \in DOMAIN d}
  ELSE {d[i].id : i \in {j \in DOMAIN d :
          \A n \in DOMAIN brushes :
             /\ ValueOf(d[j], brushes[n].axisKey) >= brushes[n].min
             /\ ValueOf(d[j], brushes[n].axisKey) < brushes[n].max}}

\* computed filteredIds
filteredIds(d, brushes) ==
  IF Len(brushes) = 0 THEN {d[i].id : i \in DOMAIN d}
  ELSE {d[i].id : i \in {j \in DOMAIN d :
          \A n \in DOMAIN brushes :
             /\ ValueOf(d[j], brushes[n].axisKey) >= brushes[n].min
             /\ ValueOf(d[j], brushes[n].axisKey) <= brushes[n].max}}

\* computed filterState
filterState(d, brushes) ==
  [brushes |-> brushes,
   filteredIds |-> filteredIds(d, brushes),
   isFiltered |-> Len(brushes) > 0]

FilterChangeEvent(d, brushes, source) ==
  [filterState |-> filterState(d, brushes), source |-> source]

\* emit('filterChange', event) for each event of the step, which runs the
\* host's handleFilterChange at once: the host copies the event's filteredIds
\* and isFiltered.
emitFilterChange(events) ==
  /\ filterChanges' = events
  /\ IF events = << >>
     THEN UNCHANGED hostVars
     ELSE /\ hostFilteredIds' = events[Len(events)].filterState.filteredIds
          /\ hasActiveFilters' = events[Len(events)].filterState.isFiltered

\* brushExtents.findIndex(b => b.axisKey === axisKey), 0 when there is none
FindIndex(brushes, axisKey) ==
  IF \E i \in DOMAIN brushes : brushes[i].axisKey = axisKey
  THEN CHOOSE i \in DOMAIN brushes :
         /\ brushes[i].axisKey = axisKey
         /\ \A j \in 1..(i - 1) : brushes[j].axisKey # axisKey
  ELSE 0

\* brushRenderData: extent = brushExtents.find(...) ?? null.  HasExtent says
\* that the extent prop is an object, ExtentProp is that object.
HasExtent(brushes, axisKey) == FindIndex(brushes, axisKey) > 0

ExtentProp(brushes, axisKey) == brushes[FindIndex(brushes, axisKey)]

\* setBrushExtent dropping the extents of the other axes.
SetExtentOnly(brushes, axisKey, min, max) ==
  << [axisKey |-> axisKey, min |-> min, max |-> max] >>

\* The array setBrushExtent leaves in brushExtents.
SetExtent(brushes, axisKey, min, max) ==
  IF FindIndex(brushes, axisKey) > 0
  THEN [brushes EXCEPT ![FindIndex(brushes, axisKey)] =
          [axisKey |-> axisKey, min |-> min, max |-> max]]
  ELSE Append(brushes, [axisKey |-> axisKey, min |-> min, max |-> max])

\* clearBrush written as splice(findIndex(...), 1): index -1 drops the last.
ClearExtentSplice(brushes, axisKey) ==
  IF \E i \in DOMAIN brushes : brushes[i].axisKey = axisKey
  THEN SelectSeq(brushes, LAMBDA b : b.axisKey # axisKey)
  ELSE SubSeq(brushes, 1, Len(brushes) - 1)

\* The array clearBrush leaves in brushExtents.
ClearExtent(brushes, axisKey) ==
  SelectSeq(brushes, LAMBDA b : b.axisKey # axisKey)

\* find() that takes the first range of the set, whatever its name.
FindRangeFirst(rs, rangeName) == IF Len(rs) > 0 THEN 1 ELSE 0

\* axisRanges.ranges.find(r => r.name === rangeName): its index, 0 when none
FindRange(rs, rangeName) ==
  IF \E i \in DOMAIN rs : rs[i].name = rangeName
  THEN CHOOSE i \in DOMAIN rs :
         /\ rs[i].name = rangeName
         /\ \A j \in 1..(i - 1) : rs[j].name # rangeName
  ELSE 0

\* newBrushes of filterByNamedRange
RECURSIVE NamedRangeBrushes(_, _)
NamedRangeBrushes(rgs, rangeName) ==
  IF Len(rgs) = 0 THEN << >>
  ELSE LET axisRanges == rgs[Len(rgs)]
           rest == NamedRangeBrushes(SubSeq(rgs, 1, Len(rgs) - 1), rangeName)
           i == FindRange(axisRanges.ranges, rangeName)
       IN IF i > 0
          THEN Append(rest, [axisKey |-> axisRanges.axisKey,
                             min |-> axisRanges.ranges[i].min,
                             max |-> axisRanges.ranges[i].max])
          ELSE rest

\* ------------------------------------------------------------------ optimization

\* The axis lists the optimization utility is called with: the chart's axes, two
\* axes of equal span, and a pair whose second axis is degenerate (min = max).
AxesSquare ==
  << [key |-> "a", min |-> 0, max |-> 10],
     [key |-> "b", min |-> 0, max |-> 10] >>

AxesFlat ==
  << [key |-> "a", min |-> 0, max |-> 10],
     [key |-> "b", min |-> 5, max |-> 5] >>

OptAxesSets == {Axes, AxesSquare, AxesFlat}

\* The data the utility is called with.  DataFront has a dominated object "S"
\* and front members of different sum score; DataTie and DataTieRev hold the
\* same two objects of equal sum score in the two input orders; DataTwins has
\* two objects with the same values.
DataFront ==
  << [id |-> "P", values |-> [a |-> 8, b |-> 2]],
     [id |-> "Q", values |-> [a |-> 2, b |-> 9]],
     [id |-> "R", values |-> [a |-> 5, b |-> 5]],
     [id |-> "S", values |-> [a |-> 1, b |-> 1]] >>

DataTie ==
  << [id |-> "A", values |-> [a |-> 1, b |-> 9]],
     [id |-> "B", values |-> [a |-> 5, b |-> 5]] >>

DataTieRev == << DataTie[2], DataTie[1] >>

DataTwins ==
  << [id |-> "X", values |-> [a |-> 5, b |-> 5]],
     [id |-> "Z", values |-> [a |-> 5, b |-> 4]],
     [id |-> "Y", values |-> [a |-> 5, b |-> 5]] >>

OptDataSets == {<< >>, Data, DataFront, DataTie, DataTieRev, DataTwins}

\* config.topN as JavaScript receives it: a number, a string that is not a
\* number (the cleared count field of ChartControls gives ''), or undefined.
TopNs ==
  {[kind |-> "number", n |-> i] : i \in (0 - 2)..MaxTopN}
    \cup {[kind |-> "string", n |-> 0], [kind |-> "undefined", n |-> 0]}

Strategies == {"sum", "weighted", "pareto"}

\* config.weights as the list of its entries.
WeightSets ==
  { << >>,
    << [key |-> "a", weight |-> 3] >>,
    << [key |-> "a", weight |-> 0], [key |-> "b", weight |-> 2] >> }

\* OptimizationConfig; hasWeights is FALSE when config.weights is undefined.
OptConfigs ==
  {[topN |-> t, strategy |-> s, hasWeights |-> h, weights |-> w] :
     t \in TopNs, s \in Strategies, h \in BOOLEAN, w \in WeightSets}

RECURSIVE SpanProduct(_)
SpanProduct(axs) ==
  IF Len(axs) = 0 THEN 1
  ELSE LET span == axs[1].max - axs[1].min
       IN (IF span = 0 THEN 1 ELSE span) * SpanProduct(Tail(axs))

\* Scores are fractions; the model holds them as integers in units of
\* 1/ScoreUnit, a unit every axis span divides, so that they are exact.
ScoreUnit == 2 * SpanProduct(Axes) * SpanProduct(AxesSquare) * SpanProduct(AxesFlat)

\* A normalisation that falls as the value rises.
normalizeValueInverted(value, min, max) ==
  IF max = min THEN ScoreUnit \div 2
  ELSE ((max - value) * ScoreUnit) \div (max - min)

normalizeValue(value, min, max) ==
  IF max = min THEN ScoreUnit \div 2
  ELSE ((value - min) * ScoreUnit) \div (max - min)

RECURSIVE calculateSumScore(_, _)
calculateSumScore(obj, axs) ==
  IF Len(axs) = 0 THEN 0
  ELSE LET axis == axs[Len(axs)]
       IN calculateSumScore(obj, SubSeq(axs, 1, Len(axs) - 1))
            + normalizeValue(ValueOf(obj, axis.key), axis.min, axis.max)

\* weights[axis.key] ?? 1
WeightOf(weights, key) ==
  IF \E i \in DOMAIN weights : weights[i].key = key
  THEN weights[CHOOSE i \in DOMAIN weights : weights[i].key = key].weight
  ELSE 1

RECURSIVE calculateWeightedScore(_, _, _)
calculateWeightedScore(obj, axs, weights) ==
  IF Len(axs) = 0 THEN 0
  ELSE LET axis == axs[Len(axs)]
       IN calculateWeightedScore(obj, SubSeq(axs, 1, Len(axs) - 1), weights)
            + normalizeValue(ValueOf(obj, axis.key), axis.min, axis.max)
                * WeightOf(weights, axis.key)

\* Dominance without the strict part: obj1 is nowhere lower than obj2.
dominatesWeak(obj1, obj2, axs) ==
  \A i \in DOMAIN axs :
     ValueOf(obj1, axs[i].key) >= ValueOf(obj2, axs[i].key)

\* The loop leaves at the first axis where obj1 is lower; without such an axis
\* obj1 dominates when it is higher on some axis.
dominates(obj1, obj2, axs) ==
  /\ \A i \in DOMAIN axs :
        ValueOf(obj1, axs[i].key) >= ValueOf(obj2, axs[i].key)
  /\ \E i \in DOMAIN axs :
        ValueOf(obj1, axs[i].key) > ValueOf(obj2, axs[i].key)

\* The candidates no other object dominates; SelectSeq keeps the order of d, as the push in the loop does.
findParetoOptimal(d, axs) ==
  LET NotDominated(candidate) ==
        ~ \E i \in DOMAIN d :
            d[i].id # candidate.id /\ dominates(d[i], candidate, axs)
  IN SelectSeq(d, NotDominated)

\* A sort that puts an object ahead of the objects of equal score.
InsertByScoreUnstable(sorted, obj, score) ==
  LET ahead == {i \in DOMAIN sorted : score[sorted[i].id] > score[obj.id]}
      n == Cardinality(ahead)
  IN SubSeq(sorted, 1, n) \o << obj >> \o SubSeq(sorted, n + 1, Len(sorted))

\* Array.prototype.sort with the comparator score(b) - score(a): descending by
\* score, and stable, so objects of equal score keep their order.  The object
\* is inserted behind every object whose score is not lower.
InsertByScore(sorted, obj, score) ==
  LET ahead == {i \in DOMAIN sorted : score[sorted[i].id] >= score[obj.id]}
      n == Cardinality(ahead)
  IN SubSeq(sorted, 1, n) \o << obj >> \o SubSeq(sorted, n + 1, Len(sorted))

RECURSIVE SortByScore(_, _)
SortByScore(d, score) ==
  IF Len(d) = 0 THEN << >>
  ELSE InsertByScore(SortByScore(SubSeq(d, 1, Len(d) - 1), score),
                     d[Len(d)], score)

\* The end index Array.prototype.slice(0, topN) uses on an array of len
\* elements: undefined is the length, a string that is not a number is 0, a
\* negative number counts from the end, anything else is capped by the length.
SliceEnd(topN, len) ==
  CASE topN.kind = "undefined" -> len
    [] topN.kind = "string" -> 0
    [] OTHER -> IF topN.n < 0 THEN Max(len + topN.n, 0) ELSE Min(topN.n, len)

IdsOf(d) == [i \in DOMAIN d |-> d[i].id]

\* OptimizationResult: solutionIds and the scores map.
findOptimalSolutions(d, axs, config) ==
  IF config.strategy = "pareto"
  THEN LET paretoFront == findParetoOptimal(d, axs)
           scores == [id \in {paretoFront[i].id : i \in DOMAIN paretoFront} |->
                        calculateSumScore(
                          paretoFront[CHOOSE i \in DOMAIN paretoFront :
                                        paretoFront[i].id = id], axs)]
           sorted == SortByScore(paretoFront, scores)
       IN [solutionIds |->
             IdsOf(SubSeq(sorted, 1, SliceEnd(config.topN, Len(sorted)))),
           scores |-> scores]
  ELSE LET ScoreOf(obj) ==
             IF config.strategy = "weighted" /\ config.hasWeights
             THEN calculateWeightedScore(obj, axs, config.weights)
             ELSE calculateSumScore(obj, axs)
           scores == [id \in {d[i].id : i \in DOMAIN d} |->
                        ScoreOf(d[CHOOSE i \in DOMAIN d : d[i].id = id])]
           sorted == SortByScore(d, scores)
       IN [solutionIds |->
             IdsOf(SubSeq(sorted, 1, SliceEnd(config.topN, Len(sorted)))),
           scores |-> scores]

findTopNBySumScore(d, axs, topN) ==
  findOptimalSolutions(d, axs,
    [topN |-> topN, strategy |-> "sum", hasWeights |-> FALSE, weights |-> << >>])

\* No call made yet.
NoOptInput ==
  [data |-> << >>, axes |-> << >>,
   config |-> [topN |-> [kind |-> "undefined", n |-> 0], strategy |-> "sum",
               hasWeights |-> FALSE, weights |-> << >>]]

NoOptResult == [solutionIds |-> << >>, scores |-> [id \in {} |-> 0]]

\* ------------------------------------------------------------------ initial state

\* No round trip made yet.
NoScaleCall ==
  [axis |-> Axes[1], height |-> 0, min |-> 0, max |-> 0,
   pixels |-> [y1 |-> 0, y2 |-> 0], values |-> [min |-> 0, max |-> 0]]

\* The chart after construction, whatever ranges it is given.
InitChart ==
  /\ data = Data
  /\ externalSelection \in {NULL, "o1"}
  /\ dimensions = [width |-> 0, height |-> 0, innerWidth |-> 0, innerHeight |-> 0]
  /\ yScales = << >>
  /\ xScale = << >>
  /\ brushExtents = << >>
  /\ selectedIds = {}
  /\ mounted = {}
  /\ isBrushing = [k \in AxisKeys |-> FALSE]
  /\ brushSelection = [k \in AxisKeys |-> "none"]
  /\ pointerDown = {}
  /\ watchedExtent = [k \in AxisKeys |-> "null"]
  /\ extentFresh = [k \in AxisKeys |-> FALSE]
  /\ setupPending = [k \in AxisKeys |-> FALSE]
  /\ brushHeight = [k \in AxisKeys |-> 0]
  /\ filterChanges = << >>
  /\ selectionChanges = << >>
  /\ selectionRequests = << >>
  /\ solutionIds = {}
  /\ optInput = NoOptInput
  /\ optResult = NoOptResult
  /\ scaleCall = NoScaleCall
  /\ axes = Axes
  /\ selectedDomain = "robots"
  /\ hostFilteredIds = {Data[i].id : i \in DOMAIN Data}
  /\ hasActiveFilters = FALSE
  /\ lastOp = "init"

Init == InitChart /\ ranges \in RangeConfigs

\* ------------------------------------------------------------------ AxisBrush

\* new Map([[props.axisKey, props.scale]]): the scale prop is
\* yScales.get(axisKey), undefined when the map has no scale for the axis.
yScaleMap(k) == [x \in {k} \cap DOMAIN yScales |-> yScales[x]]

\* What d3 keeps of the selection [y1, y2].
SelectionOf(y1, y2) == IF y1 = y2 THEN "empty" ELSE "span"

\* brushBehavior.move(group, [y1, y2]): d3 stores the selection and dispatches
\* start, brush and end.  handleBrushStart sets isBrushing; handleBrush turns
\* the selection into domain values and emits brushChange, which the parent's
\* handleBrushChange passes to setBrushExtent (a new extent object and a
\* filterChange); handleBrushEnd resets isBrushing.
MoveTo(k, y1, y2) ==
  LET v == pixelToValue(y1, y2, k, yScaleMap(k))
      newBrushes == SetExtent(brushExtents, k, v.min, v.max)
  IN /\ brushSelection' = [brushSelection EXCEPT ![k] = SelectionOf(y1, y2)]
     /\ brushExtents' = newBrushes
     /\ emitFilterChange(<< FilterChangeEvent(data, newBrushes, "brush") >>)
     /\ isBrushing' = [isBrushing EXCEPT ![k] = FALSE]
     /\ extentFresh' = [extentFresh EXCEPT ![k] = TRUE]

\* brushBehavior.move(group, null): handleBrush returns at once, handleBrushEnd
\* emits brushChange(null), which the parent passes to clearBrush.
MoveToNull(k) ==
  LET newBrushes == ClearExtent(brushExtents, k)
  IN /\ brushSelection' = [brushSelection EXCEPT ![k] = "none"]
     /\ brushExtents' = newBrushes
     /\ emitFilterChange(<< FilterChangeEvent(data, newBrushes, "brush") >>)
     /\ isBrushing' = [isBrushing EXCEPT ![k] = FALSE]
     /\ extentFresh' = [extentFresh EXCEPT ![k] = FALSE]

\* setupBrush: a new brush behaviour over [0, props.height]; d3 keeps the
\* group's selection; an extent prop is projected through the current scale.
setupBrush(k) ==
  /\ brushHeight' = [brushHeight EXCEPT ![k] = dimensions.innerHeight]
  /\ IF HasExtent(brushExtents, k)
     THEN LET e == ExtentProp(brushExtents, k)
              p == valueToPixel(e.min, e.max, k, yScaleMap(k))
          IN MoveTo(k, p.y1, p.y2)
     ELSE /\ emitFilterChange(<< >>)
          /\ UNCHANGED <<brushSelection, brushExtents, isBrushing, extentFresh>>

\* The parent renders an AxisBrush per axis once xScale exists; the component
\* registers its watchers on the props it was created with, and onMounted
\* runs setupBrush.  The children are created in the order of props.axes.
MountBrush(k) ==
  /\ xScale # << >>
  /\ k \in ConfiguredKeys \ mounted
  /\ \A i \in DOMAIN axes : axes[i].key = k =>
        \A j \in 1..(i - 1) : axes[j].key \in mounted
  /\ mounted' = mounted \cup {k}
  /\ watchedExtent' = [watchedExtent EXCEPT ![k] =
        IF HasExtent(brushExtents, k) THEN "obj" ELSE "null"]
  /\ setupBrush(k)
  /\ selectionChanges' = << >>
  /\ selectionRequests' = << >>
  /\ lastOp' = "setupBrush"
  /\ UNCHANGED <<optVars, data, ranges, externalSelection, dimensions, yScales, xScale,
                 selectedIds, pointerDown, setupPending>>

\* watch(() => [props.scale, props.height], () => setupBrush())
WatchScale(k) ==
  /\ k \in mounted
  /\ setupPending[k]
  /\ setupPending' = [setupPending EXCEPT ![k] = FALSE]
  /\ setupBrush(k)
  /\ selectionChanges' = << >>
  /\ selectionRequests' = << >>
  /\ lastOp' = "setupBrush"
  /\ UNCHANGED <<optVars, data, ranges, externalSelection, dimensions, yScales, xScale,
                 selectedIds, mounted, pointerDown, watchedExtent>>

\* The extent watcher is queued when the extent prop is not the value the
\* watcher saw last: another object, or null after an object.
ExtentChanged(k) ==
  \/ ~HasExtent(brushExtents, k) /\ watchedExtent[k] = "obj"
  \/ HasExtent(brushExtents, k) /\ extentFresh[k]

\* No job is queued: every AxisBrush is mounted and no watcher is due.  Pointer
\* events, ResizeObserver callbacks and the host's event handlers, which call
\* the chart's methods and change its props, are tasks of the event loop,
\* which runs them only after Vue's queue (a microtask) has been flushed.  A
\* host handler makes one call.
Idle ==
  \A k \in ConfiguredKeys :
     /\ xScale # << >> => k \in mounted
     /\ k \in mounted => ~setupPending[k] /\ ~ExtentChanged(k)

\* watch(() => props.extent, ...): skipped while isBrushing, else the brush is
\* moved to the extent (setBrushExtent) or to null (clearBrush).
WatchExtent(k) ==
  /\ k \in mounted
  /\ ExtentChanged(k)
  /\ watchedExtent' = [watchedExtent EXCEPT ![k] =
        IF HasExtent(brushExtents, k) THEN "obj" ELSE "null"]
  /\ IF isBrushing[k]
     THEN /\ extentFresh' = [extentFresh EXCEPT ![k] = FALSE]
          /\ emitFilterChange(<< >>)
          /\ UNCHANGED <<brushSelection, brushExtents, isBrushing>>
     ELSE IF ~HasExtent(brushExtents, k)
     THEN MoveToNull(k)
     ELSE LET e == ExtentProp(brushExtents, k)
              p == valueToPixel(e.min, e.max, k, yScaleMap(k))
          IN MoveTo(k, p.y1, p.y2)
  /\ selectionChanges' = << >>
  /\ selectionRequests' = << >>
  /\ lastOp' = "watchExtent"
  /\ UNCHANGED <<optVars, data, ranges, externalSelection, dimensions, yScales, xScale,
                 selectedIds, mounted, pointerDown, setupPending, brushHeight>>

\* Pixel rows of the brush area the pointer rests on: top, middle, bottom.
DragRows(k) == {0, brushHeight[k] \div 2, brushHeight[k]}

\* Pointer down on the brush of axis k: d3 starts a gesture and dispatches
\* 'start', which runs handleBrushStart.
BeginGesture(k) ==
  /\ Idle
  /\ k \in mounted
  /\ pointerDown = {}
  /\ brushHeight[k] > 0
  /\ pointerDown' = pointerDown \cup {k}
  /\ isBrushing' = [isBrushing EXCEPT ![k] = TRUE]
  /\ emitFilterChange(<< >>)
  /\ selectionChanges' = << >>
  /\ selectionRequests' = << >>
  /\ lastOp' = "dragStart"
  /\ UNCHANGED <<optVars, data, ranges, externalSelection, dimensions, yScales, xScale,
                 brushExtents, selectedIds, mounted, watchedExtent, extentFresh,
                 setupPending, brushHeight>>

\* Pointer down on the overlay: d3 starts an empty selection at the row.
DragStart(k) ==
  /\ BeginGesture(k)
  /\ brushSelection' = [brushSelection EXCEPT ![k] = "empty"]

\* Pointer down on the selection or one of its handles: d3 keeps the selection.
DragStartOnSelection(k) ==
  /\ brushSelection[k] = "span"
  /\ BeginGesture(k)
  /\ UNCHANGED brushSelection

\* Pointer move: d3 dispatches 'brush' with the selection [y1, y2];
\* handleBrush emits brushChange, the parent stores the extent.
DragMove(k, y1, y2) ==
  /\ Idle
  /\ k \in pointerDown
  /\ y1 < y2
  /\ LET v == pixelToValue(y1, y2, k, yScaleMap(k))
         newBrushes == SetExtent(brushExtents, k, v.min, v.max)
     IN /\ brushSelection' = [brushSelection EXCEPT ![k] = SelectionOf(y1, y2)]
        /\ brushExtents' = newBrushes
        /\ emitFilterChange(<< FilterChangeEvent(data, newBrushes, "brush") >>)
  /\ extentFresh' = [extentFresh EXCEPT ![k] = TRUE]
  /\ selectionChanges' = << >>
  /\ selectionRequests' = << >>
  /\ lastOp' = "drag"
  /\ UNCHANGED <<optVars, data, ranges, externalSelection, dimensions, yScales, xScale,
                 selectedIds, mounted, isBrushing, pointerDown, watchedExtent,
                 setupPending, brushHeight>>

\* Pointer up: d3 drops an empty selection and dispatches 'end';
\* handleBrushEnd resets isBrushing and emits brushChange(null) for no
\* selection, which the parent passes to clearBrush.
DragEnd(k) ==
  /\ Idle
  /\ k \in pointerDown
  /\ pointerDown' = pointerDown \ {k}
  /\ isBrushing' = [isBrushing EXCEPT ![k] = FALSE]
  /\ IF brushSelection[k] # "span"
     THEN LET newBrushes == ClearExtent(brushExtents, k)
          IN /\ brushSelection' = [brushSelection EXCEPT ![k] = "none"]
             /\ brushExtents' = newBrushes
             /\ emitFilterChange(<< FilterChangeEvent(data, newBrushes, "brush") >>)
             /\ extentFresh' = [extentFresh EXCEPT ![k] = FALSE]
     ELSE /\ emitFilterChange(<< >>)
          /\ UNCHANGED <<brushSelection, brushExtents, extentFresh>>
  /\ selectionChanges' = << >>
  /\ selectionRequests' = << >>
  /\ lastOp' = "dragEnd"
  /\ UNCHANGED <<optVars, data, ranges, externalSelection, dimensions, yScales, xScale,
                 selectedIds, mounted, watchedExtent, setupPending, brushHeight>>

\* ------------------------------------------------------------------ ParallelPlot

\* A click that selects the line whether or not it was selected.
ToggleSelectedAlways(sel, id) == {id}

\* A click that adds the line to the selection.
ToggleSelectedAdditive(sel, id) == IF id \in sel THEN sel \ {id} ELSE sel \cup {id}

\* handlePlotClick's update of selectedIds: a selected id is deleted, any
\* other id replaces the set.
ToggleSelected(sel, id) == IF id \in sel THEN sel \ {id} ELSE {id}

\* An externalSelection watcher that ignores a change to null.
ExternalSelectedKeep(newId) == IF newId # NULL THEN {newId} ELSE selectedIds

\* The externalSelection watcher's update of selectedIds.
ExternalSelected(newId) == IF newId # NULL THEN {newId} ELSE {}

NoSelectionEvents ==
  /\ selectionChanges' = << >>
  /\ selectionRequests' = << >>

\* updateDimensions (ResizeObserver callback, and onMounted) with updateScales:
\* scales are rebuilt only for a positive inner width and height.  Every
\* mounted AxisBrush whose scale or height prop changes has its scale watcher
\* queued.
updateDimensions(size) ==
  LET dims == calculateDimensions(size[1], size[2], Margin)
      rebuilt == dims.innerWidth > 0 /\ dims.innerHeight > 0
  IN /\ Idle
     /\ <<dimensions.width, dimensions.height>> # size
     /\ dimensions' = dims
     /\ IF rebuilt
        THEN /\ yScales' = createYScales(axes, dims.innerHeight)
             /\ xScale' = createXPositionScale(axes, dims.innerWidth)
        ELSE UNCHANGED <<yScales, xScale>>
     /\ setupPending' = [k \in AxisKeys |->
          IF k \in mounted /\ (rebuilt \/ dims.innerHeight # dimensions.innerHeight)
          THEN TRUE ELSE setupPending[k]]
     /\ emitFilterChange(<< >>)
     /\ NoSelectionEvents
     /\ lastOp' = "updateDimensions"
     /\ UNCHANGED <<optVars, data, ranges, externalSelection, brushExtents, selectedIds,
                    mounted, isBrushing, brushSelection, pointerDown,
                    watchedExtent, extentFresh, brushHeight>>

\* setBrushExtent(axisKey, min, max), called by the host
setBrushExtent(axisKey, min, max) ==
  LET newBrushes == SetExtent(brushExtents, axisKey, min, max)
  IN /\ Idle
     /\ brushExtents' = newBrushes
     /\ extentFresh' = [k \in AxisKeys |->
          IF k = axisKey /\ k \in mounted THEN TRUE ELSE extentFresh[k]]
     /\ emitFilterChange(<< FilterChangeEvent(data, newBrushes, "brush") >>)
     /\ NoSelectionEvents
     /\ lastOp' = "setBrushExtent"
     /\ UNCHANGED <<optVars, data, ranges, externalSelection, dimensions, yScales, xScale,
                    selectedIds, mounted, isBrushing, brushSelection, pointerDown,
                    watchedExtent, setupPending, brushHeight>>

\* clearBrush(axisKey), called by the host
clearBrush(axisKey) ==
  LET newBrushes == ClearExtent(brushExtents, axisKey)
  IN /\ Idle
     /\ brushExtents' = newBrushes
     /\ extentFresh' = [k \in AxisKeys |->
          IF k = axisKey THEN FALSE ELSE extentFresh[k]]
     /\ emitFilterChange(<< FilterChangeEvent(data, newBrushes, "brush") >>)
     /\ NoSelectionEvents
     /\ lastOp' = "clearBrush"
     /\ UNCHANGED <<optVars, data, ranges, externalSelection, dimensions, yScales, xScale,
                    selectedIds, mounted, isBrushing, brushSelection, pointerDown,
                    watchedExtent, setupPending, brushHeight>>

\* clearAllFilters()
clearAllFilters ==
  /\ Idle
  /\ brushExtents' = << >>
  /\ extentFresh' = [k \in AxisKeys |-> FALSE]
  /\ emitFilterChange(<< FilterChangeEvent(data, << >>, "clear") >>)
  /\ NoSelectionEvents
  /\ lastOp' = "clearAllFilters"
  /\ UNCHANGED <<optVars, data, ranges, externalSelection, dimensions, yScales, xScale,
                 selectedIds, mounted, isBrushing, brushSelection, pointerDown,
                 watchedExtent, setupPending, brushHeight>>

\* filterByNamedRange(rangeName): every extent is a new object
filterByNamedRange(rangeName) ==
  LET newBrushes == NamedRangeBrushes(ranges, rangeName)
  IN /\ Idle
     /\ brushExtents' = newBrushes
     /\ extentFresh' = [k \in AxisKeys |->
          k \in mounted /\ FindIndex(newBrushes, k) > 0]
     /\ emitFilterChange(<< FilterChangeEvent(data, newBrushes, "range") >>)
     /\ NoSelectionEvents
     /\ lastOp' = "filterByNamedRange"
     /\ UNCHANGED <<optVars, data, ranges, externalSelection, dimensions, yScales, xScale,
                    selectedIds, mounted, isBrushing, brushSelection, pointerDown,
                    watchedExtent, setupPending, brushHeight>>

\* handlePlotClick on the line of object id.  Lines are rendered once the
\* scales exist, and a line that fails the filter takes no pointer events
\* (.plot-line--inactive).
handlePlotClick(id) ==
  /\ Idle
  /\ xScale # << >>
  /\ id \in filteredIds(data, brushExtents)
  /\ selectedIds' = ToggleSelected(selectedIds, id)
  /\ selectionChanges' = << [selectedIds |-> selectedIds', source |-> "click"] >>
  /\ selectionRequests' =
       << [requestedId |-> IF Cardinality(selectedIds') = 1 THEN id ELSE NULL] >>
  /\ emitFilterChange(<< >>)
  /\ lastOp' = "handlePlotClick"
  /\ UNCHANGED <<optVars, data, ranges, externalSelection, dimensions, yScales, xScale,
                 brushExtents, mounted, isBrushing, brushSelection, pointerDown,
                 watchedExtent, extentFresh, setupPending, brushHeight>>

\* The host changes the externalSelection prop; watch(() =>
\* props.externalSelection, ...) runs on the change.
externalSelectionChange(newId) ==
  /\ Idle
  /\ newId # externalSelection
  /\ externalSelection' = newId
  /\ selectedIds' = ExternalSelected(newId)
  /\ emitFilterChange(<< >>)
  /\ NoSelectionEvents
  /\ lastOp' = "externalSelection"
  /\ UNCHANGED <<optVars, data, ranges, dimensions, yScales, xScale, brushExtents,
                 mounted, isBrushing, brushSelection, pointerDown, watchedExtent,
                 extentFresh, setupPending, brushHeight>>

\* ------------------------------------------------------------------ specification

DataIds == {data[i].id : i \in DOMAIN data}

\* The ResizeObserver, the queued jobs of the AxisBrush children and the
\* pointer gestures on the brushes.
NextChart ==
  \/ \E size \in ContainerSizes : updateDimensions(size)
  \/ \E k \in AxisKeys : MountBrush(k)
  \/ \E k \in AxisKeys : WatchScale(k)
  \/ \E k \in AxisKeys : WatchExtent(k)
  \/ \E k \in AxisKeys : DragStart(k)
  \/ \E k \in AxisKeys : DragStartOnSelection(k)
  \/ \E k \in AxisKeys : \E y1, y2 \in DragRows(k) : DragMove(k, y1, y2)
  \/ \E k \in AxisKeys : DragEnd(k)

\* The filter methods the component exposes to the host.
NextFilterApi ==
  \/ \E k \in AxisKeys : \E min, max \in 0..MaxArg : setBrushExtent(k, min, max)
  \/ \E k \in Keys : clearBrush(k)
  \/ clearAllFilters
  \/ \E name \in RangeNames : filterByNamedRange(name)

\* Clicks on plot lines and changes of the externalSelection prop.
NextSelect ==
  \/ \E id \in DataIds : handlePlotClick(id)
  \/ \E id \in DataIds \cup {NULL} : externalSelectionChange(id)

Next == NextChart \/ NextFilterApi \/ NextSelect

Spec == Init /\ [][Next]_vars

\* The selection and the brushes meet only in the guard of handlePlotClick
\* (a line that fails the filter takes no click), so the two halves of the
\* component are checked each with the chart's own reactions: the filter
\* methods without selections, and the selections over brushes that are
\* dragged.
InitFilter == Init /\ externalSelection = NULL

NextFilter == NextChart \/ NextFilterApi

SpecFilter == InitFilter /\ [][NextFilter]_vars

NextSelection == NextChart \/ NextSelect

SpecSelection == Init /\ [][NextSelection]_vars

\* ------------------------------------------------------------------ rendering

\* DEFAULT_CONFIG, opacities and widths in tenths.
DefaultConfig ==
  [activeOpacity |-> 10, inactiveOpacity |-> 1,
   strokeWidth |-> 15, highlightStrokeWidth |-> 25]

\* hoveredId: no plot or the plot under the pointer.  Hovering changes no
\* other state, so it is an argument of the rendering, not a variable.
Hovered == {NULL} \cup Ids

\* A plot state whose passesFilter also takes the solutions as passing.
PlotStatePassSolutions(id, hovered) ==
  [id |-> id,
   passesFilter |-> id \in filteredIds(data, brushExtents) \/ id \in solutionIds,
   isSelected |-> id \in selectedIds,
   isHighlighted |-> hovered = id \/ externalSelection = id,
   isSolution |-> id \in solutionIds]

\* A plot state that is highlighted by hovering alone.
PlotStateHoverOnly(id, hovered) ==
  [id |-> id,
   passesFilter |-> id \in filteredIds(data, brushExtents),
   isSelected |-> id \in selectedIds,
   isHighlighted |-> hovered = id,
   isSolution |-> id \in solutionIds]

\* PlotState of the object with this id, as plotData computes it.
PlotState(id, hovered) ==
  [id |-> id,
   passesFilter |-> id \in filteredIds(data, brushExtents),
   isSelected |-> id \in selectedIds,
   isHighlighted |-> hovered = id \/ externalSelection = id,
   isSolution |-> id \in solutionIds]

\* plotData: the states of the plots drawn, none before the scales exist.
plotData(hovered) ==
  IF xScale = << >> \/ DOMAIN yScales = {} THEN << >>
  ELSE [i \in DOMAIN data |-> PlotState(data[i].id, hovered)]

getPlotRenderScore(state) ==
  (IF state.passesFilter THEN 1 ELSE 0) + (IF state.isHighlighted THEN 2 ELSE 0)
    + (IF state.isSelected THEN 4 ELSE 0) + (IF state.isSolution THEN 8 ELSE 0)

\* [...plotData].sort((a, b) => score(a) - score(b)): ascending by render
\* score and stable; the plot goes behind every plot whose score is not higher.
RECURSIVE SortByRenderScore(_)
SortByRenderScore(plots) ==
  IF Len(plots) = 0 THEN << >>
  ELSE LET sorted == SortByRenderScore(SubSeq(plots, 1, Len(plots) - 1))
           plot == plots[Len(plots)]
           n == Cardinality({i \in DOMAIN sorted :
                  getPlotRenderScore(sorted[i]) <= getPlotRenderScore(plot)})
       IN SubSeq(sorted, 1, n) \o << plot >> \o SubSeq(sorted, n + 1, Len(sorted))

\* sortedPlotData: the plots in the order they are drawn, the first beneath.
sortedPlotData(hovered) == SortByRenderScore(plotData(hovered))

getPlotOpacity(state) ==
  IF ~ state.passesFilter THEN DefaultConfig.inactiveOpacity
  ELSE DefaultConfig.activeOpacity

getPlotStrokeWidth(state) ==
  IF state.isHighlighted \/ state.isSelected \/ state.isSolution
  THEN DefaultConfig.highlightStrokeWidth
  ELSE DefaultConfig.strokeWidth

\* ------------------------------------------------------------------ optimization calls

\* The chart component's own state, which the utility functions do not touch.
plotVars ==
  << data, ranges, externalSelection, dimensions, yScales, xScale, brushExtents,
     selectedIds, mounted, isBrushing, brushSelection, pointerDown, watchedExtent,
     extentFresh, setupPending, brushHeight, filterChanges, selectionChanges,
     selectionRequests, axes, selectedDomain, hostFilteredIds, hasActiveFilters >>

\* A call findOptimalSolutions(d, axes, config); the arguments and the result
\* are kept.  The result depends on the arguments alone, so one call from the
\* initial state stands for a call at any time.
Optimize(d, axs, config) ==
  /\ lastOp = "init"
  /\ optInput' = [data |-> d, axes |-> axs, config |-> config]
  /\ optResult' = findOptimalSolutions(d, axs, config)
  /\ lastOp' = "findOptimalSolutions"
  /\ UNCHANGED <<plotVars, solutionIds, scaleCall>>

\* A call findTopNBySumScore(d, axes, topN).
TopNBySumScore(d, axs, topN) ==
  /\ lastOp = "init"
  /\ optInput' = [data |-> d, axes |-> axs,
                  config |-> [topN |-> topN, strategy |-> "sum",
                              hasWeights |-> FALSE, weights |-> << >>]]
  /\ optResult' = findTopNBySumScore(d, axs, topN)
  /\ lastOp' = "findTopNBySumScore"
  /\ UNCHANGED <<plotVars, solutionIds, scaleCall>>

NextOptimize ==
  \/ \E d \in OptDataSets, axs \in OptAxesSets, config \in OptConfigs :
        Optimize(d, axs, config)
  \/ \E d \in OptDataSets, axs \in OptAxesSets, topN \in TopNs :
        TopNBySumScore(d, axs, topN)

\* The optimization utilities are pure functions: they are checked on their
\* own, over every input of the sets above.
SpecOptimize == InitFilter /\ [][NextOptimize]_vars

\* ------------------------------------------------------------------ scale calls

\* Axes the scale utilities are called for: the chart's two and a degenerate
\* one.
ScaleAxes == {Axes[1], Axes[2], AxesFlat[2]}

\* Heights of the brush area; every niced domain span divides them.
ScaleHeights == {32, 64}

\* valueToPixel(min, max) on the scale of one axis, then pixelToValue on the
\* pixels it returned.  Like the optimization utilities the two functions
\* depend on their arguments alone.
RoundTrip(axis, height, min, max) ==
  LET scales == createYScales(<< axis >>, height)
      pixels == valueToPixel(min, max, axis.key, scales)
  IN /\ lastOp = "init"
     /\ min <= max
     /\ scaleCall' = [axis |-> axis, height |-> height, min |-> min, max |-> max,
                      pixels |-> pixels,
                      values |-> pixelToValue(pixels.y1, pixels.y2, axis.key, scales)]
     /\ lastOp' = "roundTrip"
     /\ UNCHANGED <<plotVars, solutionIds, optInput, optResult>>

NextScales ==
  \E axis \in ScaleAxes, height \in ScaleHeights, min, max \in 0..MaxValue :
     RoundTrip(axis, height, min, max)

SpecScales == InitFilter /\ [][NextScales]_vars

\* ------------------------------------------------------------------ host

\* A ranges input with an entry for "z", which is the key of no axis.
RangesUnmatched ==
  << [axisKey |-> "z",
      ranges |-> << [name |-> "green", min |-> 1, max |-> 2] >>],
     [axisKey |-> "b",
      ranges |-> << [name |-> "amber", min |-> 0, max |-> 15] >>] >>

HostRangeConfigs == {Ranges, RangesUnmatched}

\* What generateData returns: objects with the ids of the old ones and new
\* values.
DataRegen ==
  << [id |-> "o1", values |-> [a |-> 0, b |-> 3]],
     [id |-> "o2", values |-> [a |-> 2, b |-> 15]],
     [id |-> "o3", values |-> [a |-> 1]] >>

DataSets == {Data, DataRegen}

\* The id arrays the host passes to setSolutions.
SolutionLists == { << >>, << "o2" >>, << "o3", "o1" >> }

SetOf(ids) == {ids[i] : i \in DOMAIN ids}

NoChartChange ==
  UNCHANGED <<axes, selectedDomain, ranges, dimensions, yScales, xScale, brushExtents, selectedIds,
              mounted, isBrushing, brushSelection, pointerDown, watchedExtent,
              extentFresh, setupPending, brushHeight>>

\* setSolutions(ids)
setSolutions(ids) ==
  /\ Idle
  /\ solutionIds' = SetOf(ids)
  /\ selectionChanges' = << [selectedIds |-> ids, source |-> "optimization"] >>
  /\ selectionRequests' = << >>
  /\ emitFilterChange(<< >>)
  /\ lastOp' = "setSolutions"
  /\ NoChartChange
  /\ UNCHANGED <<data, externalSelection, optInput, optResult, scaleCall>>

\* clearSolutions()
clearSolutions ==
  /\ Idle
  /\ solutionIds' = {}
  /\ emitFilterChange(<< >>)
  /\ NoSelectionEvents
  /\ lastOp' = "clearSolutions"
  /\ NoChartChange
  /\ UNCHANGED <<data, externalSelection, optInput, optResult, scaleCall>>

\* The host's handleOptimize(topN): findTopNBySumScore over the data and the
\* axes, then setSolutions with the result, which is local to the handler.
handleOptimize(topN) ==
  LET result == findTopNBySumScore(data, Axes, topN)
  IN /\ Idle
     /\ solutionIds' = SetOf(result.solutionIds)
     /\ selectionChanges' =
          << [selectedIds |-> result.solutionIds, source |-> "optimization"] >>
     /\ selectionRequests' = << >>
     /\ emitFilterChange(<< >>)
     /\ lastOp' = "handleOptimize"
     /\ NoChartChange
     /\ UNCHANGED <<data, externalSelection, optInput, optResult, scaleCall>>

\* The host's handleRegenerateData: the data prop is replaced, the host's
\* selectedId (the externalSelection prop) is set to null, which runs the
\* chart's watcher when it was not null, and clearSolutions is called.  The
\* chart watches neither props.data nor anything derived from it, and no
\* clearAllFilters is called: the brush extents stay.  The host sets its
\* filteredIds to the ids of the new data and leaves hasActiveFilters.
handleRegenerateData(d) ==
  /\ Idle
  /\ data' = d
  /\ externalSelection' = NULL
  /\ selectedIds' = IF externalSelection # NULL THEN ExternalSelected(NULL)
                    ELSE selectedIds
  /\ solutionIds' = {}
  /\ hostFilteredIds' = {d[i].id : i \in DOMAIN d}
  /\ filterChanges' = << >>
  /\ NoSelectionEvents
  /\ lastOp' = "handleRegenerateData"
  /\ UNCHANGED <<axes, selectedDomain, hasActiveFilters, ranges, dimensions, yScales, xScale, brushExtents, mounted,
                 isBrushing, brushSelection, pointerDown, watchedExtent,
                 extentFresh, setupPending, brushHeight, optInput, optResult,
                 scaleCall>>

\* The host's domainConfigs: "robots" is the configuration the chart starts
\* with; "creatures" has other objects and shares one axis with it, as the
\* demo's creatures share the axis 'speed' with its robots.
DataCreatures ==
  << [id |-> "c1", values |-> [b |-> 4]],
     [id |-> "c2", values |-> [b |-> 12]] >>

DataCreaturesRegen ==
  << [id |-> "c1", values |-> [b |-> 9]],
     [id |-> "c2", values |-> [b |-> 2]] >>

domainConfigs ==
  [robots |-> [axes |-> Axes, ranges |-> Ranges, sampleData |-> Data,
               generateData |-> {DataRegen}],
   creatures |-> [axes |-> << Axes[2] >>, ranges |-> << Ranges[2] >>,
                  sampleData |-> DataCreatures,
                  generateData |-> {DataCreaturesRegen}]]

\* The host's watch(selectedDomain) with the chart's reactions to its new
\* props.  The host replaces data by the domain's sample data, sets its
\* filteredIds to their ids, selectedId to null and hasActiveFilters to false;
\* axes and ranges are the new currentConfig's.  In the chart the
\* externalSelection watcher runs if the prop was not null, and watch(axes)
\* runs updateScales, which rebuilds the scales unless an inner dimension is 0.
\* The AxisBrush of an axis that is no longer configured is unmounted; one
\* that stays has its scale watcher queued when the scales were rebuilt.  No
\* method of the chart is called: brushExtents and solutionIds stay.
selectDomain(newDomain) ==
  LET config == domainConfigs[newDomain]
      keys == {config.axes[i].key : i \in DOMAIN config.axes}
      rebuilt == dimensions.innerWidth > 0 /\ dimensions.innerHeight > 0
      kept == mounted \cap keys
  IN /\ Idle
     /\ pointerDown = {}
     /\ newDomain # selectedDomain
     /\ selectedDomain' = newDomain
     /\ axes' = config.axes
     /\ ranges' = config.ranges
     /\ data' = config.sampleData
     /\ hostFilteredIds' = {config.sampleData[i].id : i \in DOMAIN config.sampleData}
     /\ hasActiveFilters' = FALSE
     /\ externalSelection' = NULL
     /\ selectedIds' = IF externalSelection # NULL THEN ExternalSelected(NULL)
                       ELSE selectedIds
     /\ IF rebuilt
        THEN /\ yScales' = createYScales(config.axes, dimensions.innerHeight)
             /\ xScale' = createXPositionScale(config.axes, dimensions.innerWidth)
        ELSE UNCHANGED <<yScales, xScale>>
     /\ mounted' = kept
     /\ setupPending' = [k \in AxisKeys |-> k \in kept /\ (rebuilt \/ setupPending[k])]
     /\ isBrushing' = [k \in AxisKeys |-> k \in kept /\ isBrushing[k]]
     /\ brushSelection' = [k \in AxisKeys |->
          IF k \in kept THEN brushSelection[k] ELSE "none"]
     /\ watchedExtent' = [k \in AxisKeys |->
          IF k \in kept THEN watchedExtent[k] ELSE "null"]
     /\ extentFresh' = [k \in AxisKeys |-> k \in kept /\ extentFresh[k]]
     /\ brushHeight' = [k \in AxisKeys |-> IF k \in kept THEN brushHeight[k] ELSE 0]
     /\ filterChanges' = << >>
     /\ NoSelectionEvents
     /\ lastOp' = "selectDomain"
     /\ UNCHANGED <<dimensions, brushExtents, pointerDown, solutionIds, optInput,
                    optResult, scaleCall>>

NextHost ==
  \/ \E rangeName \in RangeNames : filterByNamedRange(rangeName)
  \/ \E d \in DataSets : handleRegenerateData(d)
  \/ \E id \in Ids : handlePlotClick(id)

\* The chart inside a host application like DomainDemo, which binds
\* externalSelection to its selectedId and listens to filterChange only: the
\* user drags brushes and clicks lines, the host filters by named range and
\* regenerates the data.
InitHost == InitChart /\ externalSelection = NULL /\ ranges \in HostRangeConfigs

SpecHost == InitHost /\ [][NextChart \/ NextHost]_vars

\* What the user does in DomainDemo besides dragging brushes: filter by a named
\* range, clear the filters, regenerate the data of the domain, switch domain.
NextDomain ==
  \/ \E rangeName \in RangeNames : filterByNamedRange(rangeName)
  \/ clearAllFilters
  \/ \E d \in domainConfigs[selectedDomain].generateData : handleRegenerateData(d)
  \/ \E newDomain \in DOMAIN domainConfigs : selectDomain(newDomain)

\* The chart inside DomainDemo, which gives it the axes, ranges and data of
\* the selected domain and mirrors its filter state.
InitDomain == InitChart /\ externalSelection = NULL /\ ranges = domainConfigs.robots.ranges

SpecDomain == InitDomain /\ [][NextChart \/ NextDomain]_vars

NextSolutions ==
  \/ \E ids \in SolutionLists : setSolutions(ids)
  \/ clearSolutions
  \/ \E n \in 0..MaxTopN : handleOptimize([kind |-> "number", n |-> n])

\* The chart with brushes that are dragged, and a host that marks solutions.
SpecSolutions == InitFilter /\ [][NextChart \/ NextSolutions]_vars

\* RobotDemo's handleSelectionChange: selectedId = event.selectedIds[0] ?? null
handleSelectionChange(ids) == IF Len(ids) = 0 THEN NULL ELSE ids[1]

\* A click on a line in RobotDemo: handlePlotClick, whose selectionChange runs
\* the host's handleSelectionChange; the host's selectedId is the chart's
\* externalSelection, whose watcher runs when the value has changed.
RobotPlotClick(id) ==
  LET clicked == ToggleSelected(selectedIds, id)
      newId == handleSelectionChange(IF clicked = {} THEN << >> ELSE << id >>)
  IN /\ Idle
     /\ xScale # << >>
     /\ id \in filteredIds(data, brushExtents)
     /\ externalSelection' = newId
     /\ selectedIds' = IF newId # externalSelection THEN ExternalSelected(newId)
                       ELSE clicked
     /\ selectionChanges' = << [selectedIds |-> clicked, source |-> "click"] >>
     /\ selectionRequests' =
          << [requestedId |-> IF Cardinality(clicked) = 1 THEN id ELSE NULL] >>
     /\ emitFilterChange(<< >>)
     /\ lastOp' = "RobotPlotClick"
     /\ UNCHANGED <<optVars, data, ranges, dimensions, yScales, xScale,
                    brushExtents, mounted, isBrushing, brushSelection, pointerDown,
                    watchedExtent, extentFresh, setupPending, brushHeight>>

\* RobotDemo's handleOptimize(topN): findTopNBySumScore, then setSolutions,
\* whose selectionChange (source 'optimization') runs handleSelectionChange as
\* a click's does.
RobotOptimize(topN) ==
  LET result == findTopNBySumScore(data, axes, topN)
      newId == handleSelectionChange(result.solutionIds)
  IN /\ Idle
     /\ solutionIds' = SetOf(result.solutionIds)
     /\ selectionChanges' =
          << [selectedIds |-> result.solutionIds, source |-> "optimization"] >>
     /\ selectionRequests' = << >>
     /\ externalSelection' = newId
     /\ selectedIds' = IF newId # externalSelection THEN ExternalSelected(newId)
                       ELSE selectedIds
     /\ emitFilterChange(<< >>)
     /\ lastOp' = "RobotOptimize"
     /\ UNCHANGED <<data, optInput, optResult, scaleCall, axes, selectedDomain,
                    ranges, dimensions, yScales, xScale, brushExtents, mounted,
                    isBrushing, brushSelection, pointerDown, watchedExtent,
                    extentFresh, setupPending, brushHeight>>

\* What the user does in RobotDemo besides dragging brushes: click a line,
\* select a card (handleRobotSelect changes selectedId), optimize.
NextRobot ==
  \/ \E id \in DataIds : RobotPlotClick(id)
  \/ \E id \in DataIds \cup {NULL} : externalSelectionChange(id)
  \/ \E n \in 0..MaxTopN : RobotOptimize([kind |-> "number", n |-> n])

\* The chart inside RobotDemo, which binds externalSelection to its selectedId
\* and listens to filterChange and selectionChange.
InitRobot == InitChart /\ externalSelection = NULL /\ ranges \in RangeConfigs

SpecRobot == InitRobot /\ [][NextChart \/ NextRobot]_vars

\* ------------------------------------------------------------------ claims

AllIds == {data[i].id : i \in DOMAIN data}

\* The extents the brush list holds for one axis, in list order.
ExtentsOf(brushes, axisKey) == SelectSeq(brushes, LAMBDA b : b.axisKey = axisKey)

\* C1: an object's id is in filteredIds iff for every active brush
\* min <= v <= max, both bounds inclusive, v being the object's value for the
\* brush's axis and 0 when the object has none; with no brush every id is in
\* filteredIds and isFiltered is false.
C1_FilteredIdsIff ==
  LET fs == filterState(data, brushExtents) IN
  /\ \A i \in DOMAIN data :
        data[i].id \in fs.filteredIds <=>
          \A n \in DOMAIN brushExtents :
            LET key == brushExtents[n].axisKey
                v == IF key \in DOMAIN data[i].values THEN data[i].values[key] ELSE 0
            IN brushExtents[n].min <= v /\ v <= brushExtents[n].max
  /\ brushExtents = << >> => fs.filteredIds = AllIds /\ ~fs.isFiltered
  /\ \A n \in DOMAIN filterChanges :
        filterChanges[n].filterState = fs

\* C1 witness: a brush is active, an object without a value for the brush's
\* axis passes as 0, an object sits on the upper bound, another is excluded.
C1_Witness ==
  /\ brushExtents # << >>
  /\ \E i, j, m \in DOMAIN data : \E n \in DOMAIN brushExtents :
        /\ brushExtents[n].axisKey \notin DOMAIN data[i].values
        /\ data[i].id \in filteredIds(data, brushExtents)
        /\ brushExtents[n].axisKey \in DOMAIN data[j].values
        /\ data[j].values[brushExtents[n].axisKey] = brushExtents[n].max
        /\ data[j].id \in filteredIds(data, brushExtents)
        /\ data[m].id \notin filteredIds(data, brushExtents)

\* The range sets of props.ranges that define a range called name.
DefinesRange(name) ==
  {i \in DOMAIN ranges : \E r \in DOMAIN ranges[i].ranges : ranges[i].ranges[r].name = name}

C3_ClickToggles ==
  [][\A id \in Ids :
       handlePlotClick(id) =>
         /\ selectedIds = {} =>
               /\ selectedIds' = {id}
               /\ selectionRequests' = << [requestedId |-> id] >>
         /\ selectedIds = {id} =>
               /\ selectedIds' = {}
               /\ selectionRequests' = << [requestedId |-> NULL] >>
         /\ selectionChanges' = << [selectedIds |-> selectedIds', source |-> "click"] >>]_vars

\* C3 witness: the second click on the same line has emptied the selection.
C3_Witness ==
  /\ lastOp = "handlePlotClick"
  /\ selectedIds = {}
  /\ selectionRequests = << [requestedId |-> NULL] >>
  /\ selectionChanges = << [selectedIds |-> {}, source |-> "click"] >>

\* C4: a change of externalSelection to X makes the selection exactly {X}, a
\* change to null empties it, whatever it held; no requestSelectionChange is
\* emitted in either case.
C4_ExternalOverrides ==
  [][\A newId \in Ids \cup {NULL} :
       externalSelectionChange(newId) =>
         /\ newId # NULL => selectedIds' = {newId}
         /\ newId = NULL => selectedIds' = {}
         /\ selectionRequests' = << >>]_vars

\* C4 witness: externalSelection has changed to "o2", the selection is
\* exactly {"o2"} and the step emitted no request.
C4_Witness ==
  /\ lastOp = "externalSelection"
  /\ externalSelection = "o2"
  /\ selectedIds = {"o2"}
  /\ selectionRequests = << >>

\* The handlers and jobs that edit the brush of axis k: a drag, the host's
\* setBrushExtent and clearBrush, and the AxisBrush's own moves of its brush.
EditsAxis(k) ==
  \/ lastOp' = "clearBrush" /\ clearBrush(k)
  \/ /\ k \in AxisKeys
     /\ \/ /\ lastOp' = "setBrushExtent"
           /\ \E min, max \in 0..MaxArg : setBrushExtent(k, min, max)
        \/ lastOp' = "dragStart" /\ (DragStart(k) \/ DragStartOnSelection(k))
        \/ lastOp' = "drag" /\ \E y1, y2 \in DragRows(k) : DragMove(k, y1, y2)
        \/ lastOp' = "dragEnd" /\ DragEnd(k)
        \/ lastOp' = "watchExtent" /\ WatchExtent(k)
        \/ lastOp' = "setupBrush" /\ (WatchScale(k) \/ MountBrush(k))

\* C5: when the AxisBrush receives an extent as its prop and moves its brush
\* to it, the move emits no further brushChange, so the step of the extent
\* watcher emits no filterChange.
C5_ExtentMoveIsSilent ==
  [][\A k \in AxisKeys :
       (WatchExtent(k) /\ HasExtent(brushExtents, k)) => filterChanges' = << >>]_vars

\* C6: a container resize and the re-projection of the brushes that follows
\* it (setupBrush) leave every brush extent and filteredIds as they were.
C6_ResizePreservesExtents ==
  [][lastOp' \in {"updateDimensions", "setupBrush"} =>
       /\ brushExtents' = brushExtents
       /\ filteredIds(data, brushExtents') = filteredIds(data, brushExtents)]_vars

\* C7: an edit of the brush of one axis leaves the extents of every other
\* axis as they were.
C7_OtherAxesUnchanged ==
  [][\A b \in Keys :
       ExtentsOf(brushExtents', b) # ExtentsOf(brushExtents, b) =>
         \A k \in Keys \ {b} : ~EditsAxis(k)]_vars

\* C7 witness: a drag has just set the brush of one axis while the other
\* axis holds a brush.
C7_Witness ==
  /\ lastOp = "drag"
  /\ \E k \in pointerDown : \E b \in AxisKeys \ {k} : HasExtent(brushExtents, b)

\* C8: the brush list holds at most one extent per axisKey.
C8_OneExtentPerAxis ==
  \A i, j \in DOMAIN brushExtents :
     brushExtents[i].axisKey = brushExtents[j].axisKey => i = j

\* C9: every brush extent has min <= max.
C9_MinLeMax ==
  \A i \in DOMAIN brushExtents : brushExtents[i].min <= brushExtents[i].max

\* C10: clearAllFilters leaves and emits the state brushes = [], isFiltered
\* = false, filteredIds = all ids, the second of two calls in a row the same
\* as the first; clearBrush on an axis without an extent leaves the brush
\* list and filteredIds as they were.
C10_ClearIdempotent ==
  [][(lastOp' = "clearAllFilters" /\ clearAllFilters =>
        /\ brushExtents' = << >>
        /\ filterChanges' =
             << [filterState |-> [brushes |-> << >>, filteredIds |-> AllIds,
                                  isFiltered |-> FALSE],
                 source |-> "clear"] >>
        /\ (lastOp = "clearAllFilters" => filterChanges' = filterChanges))
     /\ (\A k \in Keys :
          (lastOp' = "clearBrush" /\ ExtentsOf(brushExtents, k) = << >> /\ clearBrush(k)) =>
             /\ brushExtents' = brushExtents
             /\ filteredIds(data, brushExtents') = filteredIds(data, brushExtents))]_vars

\* C10 witness: clearBrush has run in a rendered chart with a brush and has
\* left no watcher to run, so the axis it was called for had no extent.
C10_Witness ==
  /\ lastOp = "clearBrush"
  /\ mounted = AxisKeys
  /\ Idle
  /\ brushExtents # << >>

\* The last step was a call of the optimization utility.
OptCalled == lastOp \in {"findOptimalSolutions", "findTopNBySumScore"}

\* topN is a number of at least 1.
ValidTopN(topN) == topN.kind = "number" /\ topN.n >= 1

TopNOne == [kind |-> "number", n |-> 1]

\* C11: for a topN below 1 or not a number, and data that is not empty,
\* findOptimalSolutions returns what it returns for topN = 1: exactly one
\* solution id, the best-ranked one, whatever the strategy.
C11_InvalidTopNClampedToOne ==
  (/\ OptCalled
   /\ ~ ValidTopN(optInput.config.topN)
   /\ optInput.data # << >>) =>
     /\ Len(optResult.solutionIds) = 1
     /\ optResult.solutionIds =
          findOptimalSolutions(optInput.data, optInput.axes,
            [optInput.config EXCEPT !.topN = TopNOne]).solutionIds

\* The position of the object with this id in the data array.
PosIn(d, id) == CHOOSE i \in DOMAIN d : d[i].id = id

\* r is ranked ahead of x: its score is higher, or equal with r earlier in d.
RankedAhead(d, score, r, x) ==
  \/ score[r] > score[x]
  \/ score[r] = score[x] /\ PosIn(d, r) < PosIn(d, x)

\* ids is the first n ids of the objects of d ordered by descending score,
\* objects of equal score in the order of d.
IsTopRanked(ids, n, d, score) ==
  /\ Len(ids) = Min(n, Len(d))
  /\ \A i \in DOMAIN ids : \E j \in DOMAIN d : d[j].id = ids[i]
  /\ \A i, j \in DOMAIN ids : i < j => RankedAhead(d, score, ids[i], ids[j])
  /\ \A j \in DOMAIN d :
        (\A i \in DOMAIN ids : ids[i] # d[j].id) =>
           \A i \in DOMAIN ids : RankedAhead(d, score, ids[i], d[j].id)

\* C12: for the sum and weighted strategies with topN >= 1, solutionIds is the
\* first min(topN, number of objects) ids of the data in descending order of
\* score, objects of equal score in their data-array order; A{1,9} listed
\* before B{5,5} on two axes [0,10] with topN = 1 gives A.
C12_SumWeightedStableTopN ==
  (/\ OptCalled
   /\ optInput.config.strategy # "pareto"
   /\ ValidTopN(optInput.config.topN)) =>
     /\ IsTopRanked(optResult.solutionIds, optInput.config.topN.n,
                    optInput.data, optResult.scores)
     /\ \A i \in DOMAIN optInput.data :
          optResult.scores[optInput.data[i].id] =
            IF optInput.config.strategy = "weighted" /\ optInput.config.hasWeights
            THEN calculateWeightedScore(optInput.data[i], optInput.axes,
                                        optInput.config.weights)
            ELSE calculateSumScore(optInput.data[i], optInput.axes)
     /\ (/\ optInput.data = DataTie
         /\ optInput.axes = AxesSquare
         /\ optInput.config.strategy = "sum"
         /\ optInput.config.topN.n = 1) => optResult.solutionIds = << "A" >>

\* C12 witness: the sum strategy has been run with topN = 1 on A and B of
\* equal score and has returned the one listed first.
C12_Witness ==
  /\ lastOp = "findOptimalSolutions"
  /\ optInput.data = DataTie
  /\ optInput.axes = AxesSquare
  /\ optInput.config.strategy = "sum"
  /\ optInput.config.topN = TopNOne
  /\ optResult.scores["A"] = optResult.scores["B"]
  /\ optResult.solutionIds = << "A" >>

\* The indices of the objects of d that no other object of d matches or beats
\* on every axis while beating it on one, a missing value counting as 0.
FrontIndices(d, axs) ==
  {i \in DOMAIN d :
     ~ \E j \in DOMAIN d :
         /\ j # i
         /\ \A n \in DOMAIN axs :
               ValueOf(d[j], axs[n].key) >= ValueOf(d[i], axs[n].key)
         /\ \E n \in DOMAIN axs :
               ValueOf(d[j], axs[n].key) > ValueOf(d[i], axs[n].key)}

\* C13: under the pareto strategy the score map has an entry, the sum score,
\* for exactly the objects no other object dominates; for topN >= 1 the
\* solutionIds are the first topN of these in descending order of sum score;
\* of P{8,2}, Q{2,9}, R{5,5}, S{1,1} the front is P, Q, R.
C13_ParetoFront ==
  (OptCalled /\ optInput.config.strategy = "pareto") =>
     LET d == optInput.data
         front == FrontIndices(d, optInput.axes)
         InFront(obj) == \E i \in front : d[i] = obj
     IN /\ DOMAIN optResult.scores = {d[i].id : i \in front}
        /\ \A i \in front :
             optResult.scores[d[i].id] = calculateSumScore(d[i], optInput.axes)
        /\ ValidTopN(optInput.config.topN) =>
             IsTopRanked(optResult.solutionIds, optInput.config.topN.n,
                         SelectSeq(d, InFront), optResult.scores)
        /\ d = DataFront => DOMAIN optResult.scores = {"P", "Q", "R"}

\* C13 witness: the pareto strategy has been run with topN = 2 on P, Q, R, S;
\* the map scores the front P, Q, R and the two best of it are returned.
C13_Witness ==
  /\ lastOp = "findOptimalSolutions"
  /\ optInput.data = DataFront
  /\ optInput.axes = AxesSquare
  /\ optInput.config.strategy = "pareto"
  /\ optInput.config.topN = [kind |-> "number", n |-> 2]
  /\ DOMAIN optResult.scores = {"P", "Q", "R"}
  /\ optResult.solutionIds = << "Q", "P" >>

\* C14: in every state, a plot whose object is in the selection set is drawn
\* with the active opacity and the highlight stroke width, also when it fails
\* the brushes, and its passesFilter is the one computed from the brushes.
C14_SelectedAlwaysProminent ==
  \A hovered \in Hovered :
    LET plots == plotData(hovered)
    IN \A i \in DOMAIN plots :
         plots[i].isSelected =>
           /\ getPlotOpacity(plots[i]) = DefaultConfig.activeOpacity
           /\ getPlotStrokeWidth(plots[i]) = DefaultConfig.highlightStrokeWidth
           /\ plots[i].passesFilter =
                (plots[i].id \in filteredIds(data, brushExtents))

\* The configured axis with this key.
AxisOf(k) == Axes[CHOOSE i \in DOMAIN Axes : Axes[i].key = k]

\* C15: the extent a drag move stores and emits for the dragged axis lies
\* within the axis's configured bounds: axis.min <= extent.min and
\* extent.max <= axis.max.
C15_DragExtentWithinAxis ==
  [][lastOp' = "drag" =>
       \A k \in pointerDown :
         \A i \in DOMAIN brushExtents' :
           brushExtents'[i].axisKey = k =>
             /\ AxisOf(k).min <= brushExtents'[i].min
             /\ brushExtents'[i].max <= AxisOf(k).max]_vars

\* The extents of the list whose axis is configured.
ConfiguredExtents(brushes) ==
  SelectSeq(brushes, LAMBDA b : b.axisKey \in AxisKeys)

\* C16: filterByNamedRange makes no extent for a key that no axis has: such a
\* ranges entry adds no brush and does not change which objects pass, and a
\* name defined on no axis leaves no brush and every object passing.
C16_NoBrushForUnknownAxis ==
  [][\A rangeName \in RangeNames :
       (lastOp' = "filterByNamedRange" /\ filterByNamedRange(rangeName)) =>
          /\ \A i \in DOMAIN brushExtents' : brushExtents'[i].axisKey \in AxisKeys
          /\ filteredIds(data', brushExtents') =
               filteredIds(data', ConfiguredExtents(brushExtents'))
          /\ DefinesRange(rangeName) = {} =>
                /\ brushExtents' = << >>
                /\ filteredIds(data', brushExtents') = {data'[i].id : i \in DOMAIN data'}]_vars

\* The object's value lies outside one of the extents.
ViolatesBrush(obj, brushes) ==
  \E i \in DOMAIN brushes :
     \/ ValueOf(obj, brushes[i].axisKey) < brushes[i].min
     \/ ValueOf(obj, brushes[i].axisKey) > brushes[i].max

PassesOf(plots) == [i \in DOMAIN plots |-> plots[i].passesFilter]

\* C17: setSolutions(ids) and clearSolutions() (and the host's handleOptimize,
\* which calls setSolutions) leave the brush extents, the selection,
\* filteredIds and every plot's passesFilter as they were, and afterwards a solution that violates
\* an active brush has passesFilter = false and is not in filteredIds.
C17_SolutionsAreNotAFilter ==
  [][lastOp' \in {"setSolutions", "clearSolutions", "handleOptimize"} =>
       /\ brushExtents' = brushExtents
       /\ selectedIds' = selectedIds
       /\ filteredIds(data', brushExtents') = filteredIds(data, brushExtents)
       /\ \A hovered \in Hovered :
            /\ PassesOf(plotData(hovered))' = PassesOf(plotData(hovered))
            /\ \A i \in DOMAIN plotData(hovered)' :
                 (/\ plotData(hovered)'[i].isSolution
                  /\ ViolatesBrush(data'[i], brushExtents')) =>
                    /\ ~ plotData(hovered)'[i].passesFilter
                    /\ data'[i].id \notin filteredIds(data', brushExtents')]_vars

\* C17 witness: setSolutions has run while a brush is active, and one of the
\* solutions it set is drawn and violates the brush.
C17_Witness ==
  /\ lastOp = "setSolutions"
  /\ brushExtents # << >>
  /\ \E i \in DOMAIN plotData(NULL) :
       /\ plotData(NULL)[i].isSolution
       /\ ViolatesBrush(data[i], brushExtents)

\* C18: every step that changes the filter result (the brushes, filteredIds
\* or isFiltered derived from the brushes and the data), a replacement of the
\* data under active brushes included, emits a FilterChange event whose
\* filterState is the one derived after the step.
C18_FilterChangeOnEveryChange ==
  [][filterState(data', brushExtents') # filterState(data, brushExtents) =>
       /\ filterChanges' # << >>
       /\ filterChanges'[Len(filterChanges')].filterState =
            filterState(data', brushExtents')]_vars

\* C19: after the host's regenerate-data action has replaced the data, the
\* chart has no brush extent (isFiltered = false, every new object passes)
\* and its selection is empty.
C19_RegenerateResets ==
  lastOp = "handleRegenerateData" =>
     /\ brushExtents = << >>
     /\ ~ filterState(data, brushExtents).isFiltered
     /\ filteredIds(data, brushExtents) = {data[i].id : i \in DOMAIN data}
     /\ selectedIds = {}

C21_RoundTrip ==
  lastOp = "roundTrip" =>
     scaleCall.values = [min |-> scaleCall.min, max |-> scaleCall.max]

\* C22: a click on the line of Y while another object X is selected makes the
\* selection exactly {Y}, and whatever clicks and externalSelection changes
\* have happened, the selection set holds at most one id.
C22_SelectionIsSingle ==
  [][/\ Cardinality(selectedIds') <= 1
     /\ \A X, Y \in Ids :
          (/\ lastOp' = "handlePlotClick"
           /\ X # Y
           /\ selectedIds = {X}
           /\ handlePlotClick(Y)) => selectedIds' = {Y}]_vars

\* C22 witness: with "o1" selected through externalSelection, a click has
\* made "o2" the selection.
C22_Witness ==
  /\ lastOp = "handlePlotClick"
  /\ externalSelection = "o1"
  /\ selectedIds = {"o2"}
  /\ selectionChanges = << [selectedIds |-> {"o2"}, source |-> "click"] >>

\* C23: with no drag in progress the chain extent stored -> extent watcher
\* moves the selector -> brush event -> extent stored again comes to an end,
\* because an extent equal to the live one is not applied or emitted again.
\* So no state is reached in which a run of the queued extent watcher applies
\* and emits the extent and leaves every variable, the watcher's own queue
\* entry included, as it was: from such a state the job runs again without end.
C23_ReactionChainEnds ==
  \A k \in AxisKeys :
     (pointerDown = {} /\ k \in mounted /\ ExtentChanged(k)) =>
        ~ ENABLED (WatchExtent(k) /\ filterChanges' # << >> /\ UNCHANGED vars)

\* The highest of the layers a plot belongs to: 0 failing the filter, 1
\* passing, 2 highlighted, 3 selected, 4 solution.
LayerOf(plot) ==
  IF plot.isSolution THEN 4
  ELSE IF plot.isSelected THEN 3
  ELSE IF plot.isHighlighted THEN 2
  ELSE IF plot.passesFilter THEN 1
  ELSE 0

\* C24: the lines are drawn in ascending order of the render score
\* passesFilter + 2 isHighlighted + 4 isSelected + 8 isSolution, lines of equal
\* score in data order, and the order is the layering: every line that fails
\* the filter is drawn before every line that passes it, and passing lines
\* before highlighted, highlighted before selected, selected before solutions.
C24_DrawOrderIsLayering ==
  \A hovered \in Hovered :
    LET drawn == sortedPlotData(hovered)
    IN \A i, j \in DOMAIN drawn :
         i < j =>
           /\ getPlotRenderScore(drawn[i]) <= getPlotRenderScore(drawn[j])
           /\ getPlotRenderScore(drawn[i]) = getPlotRenderScore(drawn[j]) =>
                PosIn(data, drawn[i].id) < PosIn(data, drawn[j].id)
           /\ LayerOf(drawn[i]) <= LayerOf(drawn[j])
           /\ ~ (drawn[i].passesFilter /\ ~ drawn[j].passesFilter)

\* C25: whenever the chart renders with scales (the x scale exists), the scales
\* are the ones of the configured axes and of the latest dimensions: the keys
\* of the y-scale map and of the x scale are the configured axis keys, every
\* y scale ranges over [innerHeight, 0] and the x scale over [0, innerWidth].
C25_ScalesAreCurrent ==
  xScale # << >> =>
     /\ DOMAIN yScales = AxisKeys
     /\ {xScale.keys[i] : i \in DOMAIN xScale.keys} = AxisKeys
     /\ \A k \in DOMAIN yScales : yScales[k].h = dimensions.innerHeight
     /\ xScale.width = dimensions.innerWidth

\* C27: while externalSelection is a non-null id X and no line has been clicked
\* since it took that value, the selection set is {X}; stated for the states in
\* which no click can have intervened: straight after the chart is mounted and
\* straight after externalSelection changes.
C27_ExternalSelectionIsSelected ==
  (externalSelection # NULL /\ lastOp \in {"init", "externalSelection"}) =>
     selectedIds = {externalSelection}

\* The highest sum score of the objects of d.
MaxSumScore(d, axs) ==
  CHOOSE s \in {calculateSumScore(d[i], axs) : i \in DOMAIN d} :
     \A i \in DOMAIN d : calculateSumScore(d[i], axs) <= s

\* C30: for data that is not empty the Pareto front is not empty and holds an
\* object of the highest sum score of all the data, so for topN >= 1 the first
\* solution of the pareto strategy has the score of the first solution of the
\* sum strategy.
C30_ParetoFrontHoldsBestSum ==
  (/\ OptCalled
   /\ optInput.config.strategy = "pareto"
   /\ optInput.data # << >>) =>
     LET d == optInput.data
         best == MaxSumScore(d, optInput.axes)
         sum == findOptimalSolutions(d, optInput.axes,
                  [optInput.config EXCEPT !.strategy = "sum"])
     IN /\ DOMAIN optResult.scores # {}
        /\ \E id \in DOMAIN optResult.scores : optResult.scores[id] = best
        /\ ValidTopN(optInput.config.topN) =>
             /\ optResult.solutionIds # << >>
             /\ sum.solutionIds # << >>
             /\ optResult.scores[optResult.solutionIds[1]] = best
             /\ sum.scores[sum.solutionIds[1]] = best

\* The pareto strategy called on P, Q, R, S, where S is dominated and the best
\* sum score is Q's; on A, B with equal scores the first solution is A.
C30_Witness ==
  /\ lastOp = "findOptimalSolutions"
  /\ optInput.data = DataFront
  /\ optInput.axes = AxesSquare
  /\ optInput.config.strategy = "pareto"
  /\ optInput.config.topN = TopNOne
  /\ optResult.solutionIds = << "Q" >>
  /\ optResult.scores["Q"] = MaxSumScore(DataFront, AxesSquare)
  /\ optResult.scores["Q"] > optResult.scores["P"]

\* C26: in every state each brush extent is on a configured axis: its
\* axisKey is the key of one of props.axes, also after the axes have changed.
C26_BrushesOnConfiguredAxes ==
  \A i \in DOMAIN brushExtents : brushExtents[i].axisKey \in ConfiguredKeys

\* C28: in DomainDemo the host's mirror is the chart's filter state in every
\* state: the host's filteredIds are the chart's filteredIds, and its
\* hasActiveFilters, which enables 'Clear All Filters', is the chart's
\* isFiltered.
C28_HostMirrorsFilterState ==
  /\ hostFilteredIds = filterState(data, brushExtents).filteredIds
  /\ hasActiveFilters = filterState(data, brushExtents).isFiltered

\* C29: in RobotDemo, Optimize changes only the solutions: the host's
\* selectedId (the chart's externalSelection) and the chart's selection set
\* are after the Optimize action, reactions included, what they were before.
C29_OptimizeKeepsSelection ==
  [][lastOp' = "RobotOptimize" =>
       /\ externalSelection' = externalSelection
       /\ selectedIds' = selectedIds]_vars

====
